---- MODULE Spec2Model ----
(***************************************************************************)
(* se-logger (src/lib.rs): leveled text logging to stdout and to one       *)
(* append-only file.  The process-wide configuration lives in two          *)
(* environment variables, SE_LOG_PATH and SE_LOG_LEVEL.                    *)
(*                                                                         *)
(* Text is modelled as a sequence of one-character strings, so that the    *)
(* conversions of the code (u32 -> decimal text -> u32, strftime pattern   *)
(* -> path, record -> line) are computed and not assumed.  stdout and      *)
(* every file are character streams; println! appends the text and "\n".   *)
(***************************************************************************)
EXTENDS Integers, Sequences, FiniteSets

\* ------------------------------------------------------------------ bounds
\* Calls made by the single thread of Spec; leveled calls in a run of SpecRun;
\* operations started by the threads of SpecConc.
MaxCalls == 2
MaxRun == 3
MaxOps == 3
\* Writes of a behaviour of Spec that fault (an Err or a short count).
MaxFaults == 1

\* --------------------------------------------------------------- constants
TRACE == 5
DEBUG == 4
INFO == 3
WARNING == 2
ERROR == 1
FATAL == 0

LOG_PATH_VAR == "SE_LOG_PATH"
LOG_LEVEL_VAR == "SE_LOG_LEVEL"

Severities == {TRACE, DEBUG, INFO, WARNING, ERROR, FATAL}

\* -------------------------------------------------------------------- text
Digits == <<"0", "1", "2", "3", "4", "5", "6", "7", "8", "9">>

DigitVal(c) == IF \E i \in 1..10 : Digits[i] = c
               THEN (CHOOSE i \in 1..10 : Digits[i] = c) - 1
               ELSE -1

NL == "\n"

Chars(s) == {s[i] : i \in 1..Len(s)}

\* u32::to_string: the decimal digits, most significant first, no padding.
RECURSIVE U32ToString(_)
U32ToString(n) == IF n < 10 THEN <<Digits[n + 1]>>
                  ELSE U32ToString(n \div 10) \o <<Digits[(n % 10) + 1]>>

\* The decimal digits of u32::MAX = 4294967295.
U32MaxDigits == <<4, 2, 9, 4, 9, 6, 7, 2, 9, 5>>

RECURSIVE StripZeros(_)
StripZeros(s) == IF s # <<>> /\ Head(s) = "0" THEN StripZeros(Tail(s)) ELSE s

\* Lexicographic: does the digit string d (no leading zero, 10 digits) exceed u32::MAX?
RECURSIVE DigitsExceed(_, _)
DigitsExceed(d, i) ==
    IF i > Len(d) THEN FALSE
    ELSE IF DigitVal(d[i]) > U32MaxDigits[i] THEN TRUE
    ELSE IF DigitVal(d[i]) < U32MaxDigits[i] THEN FALSE
    ELSE DigitsExceed(d, i + 1)

Overflows(d) == LET z == StripZeros(d)
                IN  Len(z) > Len(U32MaxDigits)
                    \/ (Len(z) = Len(U32MaxDigits) /\ DigitsExceed(z, 1))

RECURSIVE DigitsValue(_, _)
DigitsValue(d, acc) == IF d = <<>> THEN acc
                       ELSE DigitsValue(Tail(d), acc * 10 + DigitVal(Head(d)))

\* str::parse::<u32>: an optional leading "+", then one or more decimal digits and
\* nothing else; a "-", a blank, an empty string or a value above u32::MAX is an Err.
ParseU32(s) ==
    LET d == IF s # <<>> /\ Head(s) = "+" THEN Tail(s) ELSE s
    IN  IF d = <<>> \/ (\E c \in Chars(d) : DigitVal(c) < 0) \/ Overflows(d)
        THEN [ok |-> FALSE, val |-> 0]
        ELSE [ok |-> TRUE, val |-> DigitsValue(d, 0)]

\* --------------------------------------------------------------- time, fmt
Pad2(n) == <<Digits[(n \div 10) + 1], Digits[(n % 10) + 1]>>

Hour(now) == (now \div 3600) % 24
Minute(now) == (now \div 60) % 60
Second(now) == now % 60

FormatError == <<"!">>

\* One strftime specifier rendered against the local time `now` (seconds of the day).
\* The date specifiers are not modelled; the patterns enumerated below use only these.
Specifier(c, now) ==
    CASE c = "H" -> Pad2(Hour(now))
      [] c = "M" -> Pad2(Minute(now))
      [] c = "S" -> Pad2(Second(now))
      [] c = "T" -> Pad2(Hour(now)) \o <<":">> \o Pad2(Minute(now)) \o <<":">> \o Pad2(Second(now))
      [] c = "%" -> <<"%">>
      [] OTHER -> FormatError

\* current_time_fmt: literal characters are copied, "%x" is replaced by its rendering.
RECURSIVE FormatTime(_, _)
FormatTime(fmt, now) ==
    IF fmt = <<>> THEN <<>>
    ELSE IF Head(fmt) = "%"
         THEN IF Len(fmt) >= 2
              THEN Specifier(fmt[2], now) \o FormatTime(SubSeq(fmt, 3, Len(fmt)), now)
              ELSE FormatError
         ELSE <<Head(fmt)>> \o FormatTime(Tail(fmt), now)

current_time_fmt(fmt, now) == FormatTime(fmt, now)

TimeFmtT == <<"%", "T">>

\* --------------------------------------------------------- the environment
\* The process environment is a partial function from variable names to values.
EnvVar(e, key) == IF key \in DOMAIN e THEN [ok |-> TRUE, val |-> e[key]]
                  ELSE [ok |-> FALSE, val |-> <<>>]

EnvSetVar(e, key, value) ==
    [k \in (DOMAIN e) \cup {key} |-> IF k = key THEN value ELSE e[k]]

DefaultPath == <<"u", "n", "n", "a", "m", "e", "d", ".", "l", "o", "g">>

\* Variant: an unparsable value read as u32::default().
get_log_level_or_zero(e) ==
    LET r == EnvVar(e, LOG_LEVEL_VAR)
    IN  IF r.ok
        THEN LET p == ParseU32(r.val) IN IF p.ok THEN p.val ELSE 0
        ELSE INFO

get_log_level(e) ==
    LET r == EnvVar(e, LOG_LEVEL_VAR)
    IN  IF r.ok
        THEN LET p == ParseU32(r.val) IN IF p.ok THEN p.val ELSE INFO
        ELSE INFO

\* Variants: the range check dropped; an out-of-range level clamped to TRACE.
set_log_level_unchecked(e, level) == EnvSetVar(e, LOG_LEVEL_VAR, U32ToString(level))

set_log_level_clamped(e, level) ==
    EnvSetVar(e, LOG_LEVEL_VAR, U32ToString(IF level <= TRACE THEN level ELSE TRACE))

set_log_level(e, level) ==
    IF level >= FATAL /\ level <= TRACE
    THEN EnvSetVar(e, LOG_LEVEL_VAR, U32ToString(level))
    ELSE e

get_log_path(e) ==
    LET r == EnvVar(e, LOG_PATH_VAR)
    IN  IF r.ok THEN r.val ELSE DefaultPath

\* Variant: the path is stored only while none is stored.
set_log_path_once(e, path) ==
    IF LOG_PATH_VAR \in DOMAIN e THEN e ELSE EnvSetVar(e, LOG_PATH_VAR, path)

set_log_path(e, path) == EnvSetVar(e, LOG_PATH_VAR, path)

level_to_string(level) ==
    CASE level = TRACE -> <<"T", "R", "A", "C", "E">>
      [] level = DEBUG -> <<"D", "E", "B", "U", "G">>
      [] level = INFO -> <<"I", "N", "F", "O">>
      [] level = WARNING -> <<"W", "A", "R", "N", "I", "N", "G">>
      [] level = ERROR -> <<"E", "R", "R", "O", "R">>
      [] level = FATAL -> <<"F", "A", "T", "A", "L">>
      [] OTHER -> <<>>

\* Variant: nothing is stored unless the level is in range.
init_all_or_nothing(e, now, path, level) ==
    IF level >= FATAL /\ level <= TRACE
    THEN set_log_level(set_log_path(e, current_time_fmt(path, now)), level)
    ELSE e

\* init: the path is expanded and stored first, then the level (if it is in range).
init(e, now, path, level) ==
    set_log_level(set_log_path(e, current_time_fmt(path, now)), level)

\* ----------------------------------------------------------- the file system
\* files: the regular files that exist, each with its content; dirs: the directories
\* that exist (the working directory, the empty path, always does).
RECURSIVE LastSlash(_)
LastSlash(path) == IF path = <<>> THEN 0
                   ELSE IF path[Len(path)] = "/" THEN Len(path)
                   ELSE LastSlash(SubSeq(path, 1, Len(path) - 1))

ParentDir(path) == SubSeq(path, 1, LastSlash(path) - 1)

\* OpenOptions::new().append(true).create(true).open(path) is Ok: the path names a
\* file (not nothing, not a directory) in a directory that exists.
CanOpen(ds, path) ==
    /\ path # <<>>
    /\ path[Len(path)] # "/"
    /\ path \notin ds
    /\ LastSlash(path) = 0 \/ ParentDir(path) \in ds

FileContent(fs, path) == IF path \in DOMAIN fs THEN fs[path] ELSE <<>>

\* create(true): the file exists after a successful open, empty if it was absent.
OpenAppendCreate(fs, path) ==
    [p \in (DOMAIN fs) \cup {path} |-> FileContent(fs, p)]

\* Variant: the file opened without append(true), so that a write starts at offset 0.
FileWrite_at_start(fs, path, buf, n) ==
    [fs EXCEPT ![path] = SubSeq(buf, 1, n) \o SubSeq(fs[path], n + 1, Len(fs[path]))]

\* File::write in append mode: the first n bytes of buf go to the end of the file.
FileWrite(fs, path, buf, n) ==
    [fs EXCEPT ![path] = fs[path] \o SubSeq(buf, 1, n)]

\* What write(buf) can return: Ok(len), and while the file system may still fault,
\* Err (-1) or Ok(n) with a short count n (here all but the last byte).
WriteErr == 0 - 1

ShortCounts(buf) == {Len(buf) - 1} \cap (1..(Len(buf) - 1))

WriteResults(buf, faulty) ==
    {Len(buf)} \cup (IF faulty THEN {WriteErr} \cup ShortCounts(buf) ELSE {})

IsFault(buf, wr) == wr # Len(buf)

\* ------------------------------------------------------------------ logging
println(out, text) == out \o text \o <<NL>>

\* The diagnostics end with the OS error text, kept here as one element.
OpenDiag == <<"Logger: Failed to open file: ", "{e}">>
WriteDiag == <<"Logger: Failed to write to file: ", "{e}">>

UnnamedThread == <<"u", "n", "n", "a", "m", "e", "d", " ", "t", "h", "r", "e", "a", "d">>

thread_name(thr) == IF thr.named THEN thr.name ELSE UnnamedThread

\* The three parts of log, on io = [out |-> stdout, fs |-> files].
LogPrint(io, message) == [io EXCEPT !.out = println(@, message)]

\* Variant: a failed open returns without a diagnostic.
LogOpen_silent(io, ds, path) ==
    IF CanOpen(ds, path) THEN [io EXCEPT !.fs = OpenAppendCreate(@, path)] ELSE io

LogOpen(io, ds, path) ==
    IF CanOpen(ds, path)
    THEN [io EXCEPT !.fs = OpenAppendCreate(@, path)]
    ELSE [io EXCEPT !.out = println(@, OpenDiag)]

LogWrite(io, path, buf, wr) ==
    IF wr = WriteErr
    THEN [io EXCEPT !.out = println(@, WriteDiag)]
    ELSE [io EXCEPT !.fs = FileWrite(@, path, buf, wr)]

\* Variant: the message goes to the file only.
log_file_only(io, e, ds, message, wr) ==
    LET path == get_log_path(e)
        io1  == LogOpen(io, ds, path)
    IN  IF CanOpen(ds, path) THEN LogWrite(io1, path, message \o <<NL>>, wr) ELSE io1

\* log: println!, then open (return on Err), then write.
log(io, e, ds, message, wr) ==
    LET path == get_log_path(e)
        io1  == LogOpen(LogPrint(io, message), ds, path)
    IN  IF CanOpen(ds, path) THEN LogWrite(io1, path, message \o <<NL>>, wr) ELSE io1

\* format!("[{}] [{}] [{}] {}", time, level, thread, message)
FormatRecord(time, level, thr, message) ==
    <<"[">> \o time \o <<"]", " ", "[">> \o level_to_string(level)
            \o <<"]", " ", "[">> \o thread_name(thr) \o <<"]", " ">> \o message

\* Variant: the comparison made strict.
Passes_strictly(threshold, level) == threshold > level

Passes(threshold, level) == threshold >= level

log_with_level(io, e, ds, now, thr, message, level, wr) ==
    IF Passes(get_log_level(e), level)
    THEN log(io, e, ds, FormatRecord(current_time_fmt(TimeFmtT, now), level, thr, message), wr)
    ELSE io

\* ------------------------------------------------------------------- inputs
Messages == {<<"x">>}

Patterns == {<<"a">>, <<"d", "/", "%", "S">>}

\* Every severity, and the first value that is none.
LevelArgs == Severities \cup {TRACE + 1}

DirNames == {<<"d">>}

\* clock is the latest local time a call has read (seconds of the day, here the
\* last second of an hour and the first of the next); the next reading is no earlier.
Times == {3599, 3600}

StartTime == CHOOSE t \in Times : \A u \in Times : t <= u

Later(t) == {u \in Times : u >= t}

MainThread == [named |-> TRUE, name |-> <<"m", "a", "i", "n">>]
SpawnedThread == [named |-> FALSE, name |-> <<>>]

\* Values SE_LOG_LEVEL may hold when the process starts.
EmptyEnv == [k \in {} |-> <<>>]

\* The environment the process starts with: neither variable set, or SE_LOG_LEVEL
\* set to "+1", to "x" (with SE_LOG_PATH = "d/p"), or to 4294967296 = u32::MAX + 1.
PresetEnvs ==
    { EmptyEnv,
      EnvSetVar(EmptyEnv, LOG_LEVEL_VAR, <<"+", "1">>),
      EnvSetVar(EnvSetVar(EmptyEnv, LOG_LEVEL_VAR, <<"x">>), LOG_PATH_VAR, <<"d", "/", "p">>),
      EnvSetVar(EmptyEnv, LOG_LEVEL_VAR, <<"4", "2", "9", "4", "9", "6", "7", "2", "9", "6">>) }

\* -------------------------------------------------------------------- state
\* env, files, dirs, stdout, clock: the process environment, the file system, the
\* console and the local time.  faultsLeft: write faults still to come.  th: the
\* position and locals of each thread of SpecConc.  The rest records the calls made:
\* env0 the environment at start, call the latest call, lastInit / lastValid the
\* latest init and the latest in-range level given to init, run the current run of
\* leveled calls, issued the (path, level) pairs of the init calls of SpecConc.
VARIABLES env, files, dirs, stdout, clock, faultsLeft, th,
          env0, ncalls, call, lastInit, lastValid, run, issued

vars == <<env, files, dirs, stdout, clock, faultsLeft, th,
          env0, ncalls, call, lastInit, lastValid, run, issued>>

Threads == {"t1", "t2", "t3"}

ThreadOf(t) == IF t = "t1" THEN MainThread ELSE SpawnedThread

Idle == [pc |-> "idle", text |-> <<>>, level |-> 0, path |-> <<>>, lvl |-> 0 - 1,
         line |-> <<>>, opened |-> <<>>]

NoCall == [op |-> "none", pattern |-> <<>>, level |-> 0, message |-> <<>>,
           now |-> 0, result |-> "none"]

NoRun == [active |-> FALSE, path |-> <<>>, base |-> <<>>, lines |-> <<>>, calls |-> 0]

Start(faults, envs) ==
    /\ env \in envs
    /\ env0 = env
    /\ files = [p \in {} |-> <<>>]
    /\ dirs = {}
    /\ stdout = <<>>
    /\ clock = StartTime
    /\ faultsLeft = faults
    /\ th = [t \in Threads |-> Idle]
    /\ ncalls = 0
    /\ call = NoCall
    /\ lastInit = NoCall
    /\ lastValid = 0 - 1
    /\ run = NoRun
    /\ issued = {}

Init == Start(MaxFaults, PresetEnvs)

\* How a call to log ended, read off the code's branches.
LogResult(e, ds, buf, wr) ==
    IF ~CanOpen(ds, get_log_path(e)) THEN "open failed"
    ELSE IF wr = WriteErr THEN "write failed"
    ELSE IF wr < Len(buf) THEN "short write"
    ELSE "written"

\* A write fault is spent only by a call that gets as far as writing.
Spend(res, buf, wr) ==
    IF res \in {"write failed", "short write"} THEN faultsLeft - 1 ELSE faultsLeft

CallInit(pattern, level, now) ==
    /\ clock' = now
    /\ env' = init(env, now, pattern, level)
    /\ ncalls' = ncalls + 1
    /\ call' = [op |-> "init", pattern |-> pattern, level |-> level, message |-> <<>>,
                now |-> now, result |-> "returned"]
    /\ lastInit' = call'
    /\ lastValid' = IF level \in Severities THEN level ELSE lastValid
    /\ run' = NoRun
    /\ UNCHANGED <<files, dirs, stdout, faultsLeft, th, env0, issued>>

CallLog(message) ==
    /\ \E buf \in {message \o <<NL>>} :
       \E wr \in WriteResults(buf, faultsLeft > 0) :
       \E res \in {LogResult(env, dirs, buf, wr)} :
       \E io \in {log([out |-> stdout, fs |-> files], env, dirs, message, wr)} :
          /\ res = "open failed" => wr = Len(buf)
          /\ stdout' = io.out
          /\ files' = io.fs
          /\ faultsLeft' = Spend(res, buf, wr)
          /\ call' = [op |-> "log", pattern |-> <<>>, level |-> 0,
                      message |-> message, now |-> 0, result |-> res]
    /\ ncalls' = ncalls + 1
    /\ run' = NoRun
    /\ UNCHANGED <<env, dirs, clock, th, env0, lastInit, lastValid, issued>>

\* trace / debug / info / warning / error / fatal: log_with_level(message, level),
\* called by the main thread.  The clock is read only by a call that passes.
Leveled(name, level, message, now) ==
    /\ \E passes \in {level <= get_log_level(env)} :
       \E line \in {FormatRecord(current_time_fmt(TimeFmtT, now), level, MainThread, message)} :
       \E buf \in {line \o <<NL>>} :
       \E wr \in WriteResults(buf, faultsLeft > 0) :
       \E res \in {IF passes THEN LogResult(env, dirs, buf, wr) ELSE "suppressed"} :
       \E io \in {log_with_level([out |-> stdout, fs |-> files], env, dirs, now,
                                 MainThread, message, level, wr)} :
       \E cur \in {IF run.active THEN run
                   ELSE [active |-> TRUE, path |-> get_log_path(env),
                         base |-> FileContent(files, get_log_path(env)),
                         lines |-> <<>>, calls |-> 0]} :
          /\ passes \/ now = clock
          /\ res \in {"open failed", "suppressed"} => wr = Len(buf)
          /\ clock' = now
          /\ stdout' = io.out
          /\ files' = io.fs
          /\ faultsLeft' = Spend(res, buf, wr)
          /\ call' = [op |-> name, pattern |-> <<>>, level |-> level,
                      message |-> message, now |-> now, result |-> res]
          /\ run' = IF res = "written"
                    THEN [cur EXCEPT !.lines = Append(@, line), !.calls = @ + 1]
                    ELSE IF res = "suppressed"
                    THEN [cur EXCEPT !.calls = @ + 1]
                    ELSE NoRun
    /\ ncalls' = ncalls + 1
    /\ UNCHANGED <<env, dirs, th, env0, lastInit, lastValid, issued>>

trace(message, now) == Leveled("trace", TRACE, message, now)
debug(message, now) == Leveled("debug", DEBUG, message, now)
info(message, now) == Leveled("info", INFO, message, now)
warning(message, now) == Leveled("warning", WARNING, message, now)
error(message, now) == Leveled("error", ERROR, message, now)
fatal(message, now) == Leveled("fatal", FATAL, message, now)

\* The surroundings: a directory may be created.

Mkdir(d) ==
    /\ d \notin dirs
    /\ d \notin DOMAIN files
    /\ dirs' = dirs \cup {d}
    /\ UNCHANGED <<env, files, stdout, clock, faultsLeft, th, env0, ncalls, call,
                   lastInit, lastValid, run, issued>>

Next ==
    \/ \E p \in Patterns, l \in LevelArgs, now \in Later(clock) :
          ncalls < MaxCalls /\ CallInit(p, l, now)
    \/ \E m \in Messages : ncalls < MaxCalls /\ CallLog(m)
    \/ \E m \in Messages, now \in Later(clock) : ncalls < MaxCalls /\ trace(m, now)
    \/ \E m \in Messages, now \in Later(clock) : ncalls < MaxCalls /\ debug(m, now)
    \/ \E m \in Messages, now \in Later(clock) : ncalls < MaxCalls /\ info(m, now)
    \/ \E m \in Messages, now \in Later(clock) : ncalls < MaxCalls /\ warning(m, now)
    \/ \E m \in Messages, now \in Later(clock) : ncalls < MaxCalls /\ error(m, now)
    \/ \E m \in Messages, now \in Later(clock) : ncalls < MaxCalls /\ fatal(m, now)
    \/ \E d \in DirNames : Mkdir(d)

Spec == Init /\ [][Next]_vars

\* ----------------------------------------------- the documented lifecycle
\* SpecRun: init at most once, first; then the main thread makes leveled calls only,
\* and no write faults.
LeveledCalls == ncalls - (IF lastInit.op = "init" THEN 1 ELSE 0)

NextRun ==
    \/ \E p \in Patterns, l \in LevelArgs, now \in Later(clock) :
          ncalls = 0 /\ CallInit(p, l, now)
    \/ \E m \in Messages, now \in Later(clock) : LeveledCalls < MaxRun /\ trace(m, now)
    \/ \E m \in Messages, now \in Later(clock) : LeveledCalls < MaxRun /\ debug(m, now)
    \/ \E m \in Messages, now \in Later(clock) : LeveledCalls < MaxRun /\ info(m, now)
    \/ \E m \in Messages, now \in Later(clock) : LeveledCalls < MaxRun /\ warning(m, now)
    \/ \E m \in Messages, now \in Later(clock) : LeveledCalls < MaxRun /\ error(m, now)
    \/ \E m \in Messages, now \in Later(clock) : LeveledCalls < MaxRun /\ fatal(m, now)

InitRun == Start(0, PresetEnvs)

SpecRun == InitRun /\ [][NextRun]_vars

\* ------------------------------------------------------------------ threads
\* SpecConc: the threads call init and the leveled functions concurrently.  A step is
\* one access to the shared state (the environment, the console, the file system);
\* std serialises the accesses to the environment, so each is atomic for its key.
ConcLevels == {ERROR, TRACE, TRACE + 1}

ConcSeverities == {FATAL, WARNING, DEBUG}

\* The main thread and a spawned one call init; another spawned one logs.
Initers == {"t1", "t2"}

Loggers == {"t3"}

\* init, line 37: current_time_fmt(path) reads the clock.
InitFmt(t, pattern, level, now) ==
    /\ th[t].pc = "idle"
    /\ ncalls < MaxOps
    /\ ncalls' = ncalls + 1
    /\ clock' = now
    /\ th' = [th EXCEPT ![t] = [Idle EXCEPT !.pc = "set_log_path", !.text = pattern,
                                            !.level = level,
                                            !.path = current_time_fmt(pattern, now)]]
    /\ issued' = issued \cup {[path |-> current_time_fmt(pattern, now), level |-> level]}
    /\ UNCHANGED <<env, files, dirs, stdout, faultsLeft, env0, call, lastInit, lastValid, run>>

\* init, line 37: set_log_path.
InitSetPath(t) ==
    /\ th[t].pc = "set_log_path"
    /\ env' = set_log_path(env, th[t].path)
    /\ th' = [th EXCEPT ![t].pc = "set_log_level"]
    /\ UNCHANGED <<files, dirs, stdout, clock, faultsLeft, env0, ncalls, call, lastInit,
                   lastValid, run, issued>>

\* init, line 38: set_log_level.
InitSetLevel(t) ==
    /\ th[t].pc = "set_log_level"
    /\ env' = set_log_level(env, th[t].level)
    /\ th' = [th EXCEPT ![t].pc = "idle"]
    /\ UNCHANGED <<files, dirs, stdout, clock, faultsLeft, env0, ncalls, call, lastInit,
                   lastValid, run, issued>>

\* log_with_level, line 90: get_log_level() >= level.
LvlRead(t, level, message) ==
    /\ th[t].pc = "idle"
    /\ ncalls < MaxOps
    /\ ncalls' = ncalls + 1
    /\ th' = [th EXCEPT ![t] = [Idle EXCEPT
                 !.pc = IF Passes(get_log_level(env), level) THEN "println" ELSE "idle",
                 !.text = message, !.level = level, !.lvl = get_log_level(env)]]
    /\ UNCHANGED <<env, files, dirs, stdout, clock, faultsLeft, env0, call, lastInit,
                   lastValid, run, issued>>

\* log_with_level, lines 91-100, and log, line 43: the record is formatted and printed.
LvlPrint(t, now) ==
    /\ th[t].pc = "println"
    /\ clock' = now
    /\ LET line == FormatRecord(current_time_fmt(TimeFmtT, now), th[t].level, ThreadOf(t),
                                th[t].text)
       IN  /\ stdout' = println(stdout, line)
           /\ th' = [th EXCEPT ![t].pc = "open", ![t].line = line]
    /\ UNCHANGED <<env, files, dirs, faultsLeft, env0, ncalls, call, lastInit, lastValid,
                   run, issued>>

\* log, lines 44-54: get_log_path() and the open.
LvlOpen(t) ==
    /\ th[t].pc = "open"
    /\ LET path == get_log_path(env)
           io   == LogOpen([out |-> stdout, fs |-> files], dirs, path)
       IN  /\ stdout' = io.out
           /\ files' = io.fs
           /\ th' = [th EXCEPT ![t].pc = IF CanOpen(dirs, path) THEN "write" ELSE "idle",
                               ![t].opened = path]
    /\ UNCHANGED <<env, dirs, clock, faultsLeft, env0, ncalls, call, lastInit, lastValid,
                   run, issued>>

\* log, lines 55-61: the write.
LvlWrite(t) ==
    /\ th[t].pc = "write"
    /\ LET buf == th[t].line \o <<NL>>
       IN  \E wr \in WriteResults(buf, faultsLeft > 0) :
             LET io == LogWrite([out |-> stdout, fs |-> files], th[t].opened, buf, wr)
             IN  /\ stdout' = io.out
                 /\ files' = io.fs
                 /\ faultsLeft' = IF IsFault(buf, wr) THEN faultsLeft - 1 ELSE faultsLeft
    /\ th' = [th EXCEPT ![t].pc = "idle"]
    /\ UNCHANGED <<env, dirs, clock, env0, ncalls, call, lastInit, lastValid, run, issued>>

NextConc ==
    \/ \E t \in Initers, p \in Patterns, l \in ConcLevels, now \in Later(clock) :
          InitFmt(t, p, l, now)
    \/ \E t \in Initers : InitSetPath(t)
    \/ \E t \in Initers : InitSetLevel(t)
    \/ \E t \in Loggers, l \in ConcSeverities, m \in Messages : LvlRead(t, l, m)
    \/ \E t \in Loggers, now \in Later(clock) : LvlPrint(t, now)
    \/ \E t \in Loggers : LvlOpen(t)
    \/ \E t \in Loggers : LvlWrite(t)

InitConc == Start(0, {EmptyEnv})

SpecConc == InitConc /\ [][NextConc]_vars

\* ------------------------------------------------------------------ claims
\* What the documentation says a call produces, written without the operators above.
IsPrefix(a, b) == Len(a) <= Len(b) /\ SubSeq(b, 1, Len(a)) = a

LeveledOps == {"trace", "debug", "info", "warning", "error", "fatal"}

SeverityOf(op) ==
    CASE op = "fatal" -> 0 [] op = "error" -> 1 [] op = "warning" -> 2
      [] op = "info" -> 3 [] op = "debug" -> 4 [] op = "trace" -> 5

SeverityName(op) ==
    CASE op = "fatal" -> <<"F", "A", "T", "A", "L">>
      [] op = "error" -> <<"E", "R", "R", "O", "R">>
      [] op = "warning" -> <<"W", "A", "R", "N", "I", "N", "G">>
      [] op = "info" -> <<"I", "N", "F", "O">>
      [] op = "debug" -> <<"D", "E", "B", "U", "G">>
      [] op = "trace" -> <<"T", "R", "A", "C", "E">>

TwoDigits(n) == <<Digits[(n \div 10) + 1], Digits[(n % 10) + 1]>>

\* "[HH:MM:SS] [LEVEL] [thread] message" and the newline, for a call of the main thread.
ExpectedLine(c) ==
    <<"[">> \o TwoDigits((c.now \div 3600) % 24) \o <<":">> \o TwoDigits((c.now \div 60) % 60)
            \o <<":">> \o TwoDigits(c.now % 60)
            \o <<"]", " ", "[">> \o SeverityName(c.op)
            \o <<"]", " ", "[", "m", "a", "i", "n", "]", " ">> \o c.message \o <<NL>>

\* The path a pattern of Patterns stands for at local time now.
ExpectedPath(pattern, now) ==
    IF pattern = <<"a">> THEN <<"a">> ELSE <<"d", "/">> \o TwoDigits(now % 60)

Called == ncalls' = ncalls + 1

ConfiguredFile == FileContent(files, get_log_path(env))

\* The files other than the configured one are what they were.
OthersUntouched ==
    /\ DOMAIN files \subseteq DOMAIN files'
    /\ DOMAIN files' \subseteq DOMAIN files \cup {get_log_path(env)}
    /\ \A p \in DOMAIN files : p # get_log_path(env) => files'[p] = files[p]

\* C1: a leveled call at severity s under threshold t prints its record iff s <= t;
\* a call that does not pass touches neither the console nor any file.
C1_EmitsIffWithinThreshold ==
    [][ (Called /\ call'.op \in LeveledOps) =>
          LET s == SeverityOf(call'.op)
              t == get_log_level(env)
          IN  /\ (s <= t) <=> (stdout' # stdout)
              /\ (s <= t) => IsPrefix(stdout \o ExpectedLine(call'), stdout')
              /\ ~(s <= t) => files' = files ]_vars

\* After init(..., INFO), info has been written to the file.
C1_Witness ==
    /\ lastInit.op = "init" /\ lastInit.level = 3
    /\ call.op = "info" /\ call.result = "written"
    /\ ConfiguredFile = ExpectedLine(call)

\* C2: init with a level outside 0..5 leaves the stored level, and so the threshold
\* later leveled calls read, as it was.
C2_OutOfRangeLevelKeepsThreshold ==
    [][ (Called /\ call'.op = "init" /\ call'.level \notin 0..5) =>
          /\ get_log_level(env') = get_log_level(env)
          /\ EnvVar(env', LOG_LEVEL_VAR) = EnvVar(env, LOG_LEVEL_VAR) ]_vars

\* init(_, 5) then init(_, 6): the threshold is still 5.
C2_Witness ==
    /\ ncalls = 2 /\ call.op = "init" /\ call.level = 6
    /\ lastValid = 5 /\ get_log_level(env) = 5

RECURSIVE Lines(_)
Lines(ls) == IF ls = <<>> THEN <<>> ELSE Head(ls) \o <<NL>> \o Lines(Tail(ls))

Newlines(text) == Cardinality({i \in 1..Len(text) : text[i] = NL})

C4_RunAppendsInCallOrder ==
    run.active =>
        /\ get_log_path(env) = run.path
        /\ ConfiguredFile = run.base \o Lines(run.lines)
        /\ Newlines(ConfiguredFile) = Newlines(run.base) + Len(run.lines)
        /\ \A p \in DOMAIN files : p = run.path

\* Three calls, two of which passed, with different records.
C4_Witness ==
    /\ run.active /\ run.calls = 3 /\ Len(run.lines) = 2
    /\ run.lines[1] # run.lines[2]

\* C5: log is not gated: whatever the threshold, a call prints the message and a
\* newline, and when the open and the write succeed the configured file grows by
\* exactly that line; what any call appends to the file it has printed first.
C5_LogPrintsThenAppends ==
    [][ (Called /\ call'.op \in LeveledOps \cup {"log"}) =>
          LET text == IF call'.op = "log" THEN call'.message \o <<NL>>
                      ELSE ExpectedLine(call')
              new  == FileContent(files', get_log_path(env))
          IN  /\ call'.op = "log" => IsPrefix(stdout \o text, stdout')
              /\ (call'.op = "log" /\ call'.result \in {"written", "short write"}) =>
                    stdout' = stdout \o text
              /\ (call'.op = "log" /\ call'.result = "written") =>
                    new = ConfiguredFile \o text
              /\ OthersUntouched
              /\ IsPrefix(ConfiguredFile, new)
              /\ new # ConfiguredFile =>
                    /\ IsPrefix(stdout \o text, stdout')
                    /\ IsPrefix(new, ConfiguredFile \o text) ]_vars

\* log("x") under threshold FATAL reaches the console and the file.
C5_Witness ==
    /\ call.op = "log" /\ call.result = "written" /\ get_log_level(env) = 0
    /\ stdout = <<"x", NL>> /\ ConfiguredFile = <<"x", NL>>

\* C6 as stated: without any init the configuration is unnamed.log and INFO.
C6_DefaultsWithoutInit ==
    lastInit.op # "init" =>
        get_log_path(env) = DefaultPath /\ get_log_level(env) = 3

NotNumbers == {<<"x">>, <<>>, <<"-", "1">>, <<"4", "2", "9", "4", "9", "6", "7", "2", "9", "6">>}

\* C6, amended: without any init and with neither variable set when the process
\* starts, the configuration is unnamed.log and INFO; and whenever the stored level
\* is missing or is no number, the threshold is INFO.
C6_DefaultsWhenNothingStored ==
    /\ (lastInit.op # "init" /\ DOMAIN env0 = {}) =>
          /\ get_log_path(env) = <<"u", "n", "n", "a", "m", "e", "d", ".", "l", "o", "g">>
          /\ get_log_level(env) = 3
    /\ (LOG_LEVEL_VAR \notin DOMAIN env \/ EnvVar(env, LOG_LEVEL_VAR).val \in NotNumbers) =>
          get_log_level(env) = 3
    /\ (call.op \in LeveledOps /\ lastInit.op # "init" /\ DOMAIN env0 = {}) =>
          (call.result = "suppressed" <=> call.op \in {"debug", "trace"})

\* Nothing stored, no init: info went to unnamed.log.
C6_Witness ==
    /\ DOMAIN env = {} /\ lastInit.op # "init"
    /\ call.op = "info" /\ call.result = "written"
    /\ DOMAIN files = {<<"u", "n", "n", "a", "m", "e", "d", ".", "l", "o", "g">>}

\* C7: when the path given to init cannot be opened, log appends to unnamed.log.
C7_InvalidPathFallsBackToDefault ==
    [][ (Called /\ call'.op = "log" /\ lastInit.op = "init"
           /\ ~CanOpen(dirs, get_log_path(env))) =>
          FileContent(files', DefaultPath)
             = FileContent(files, DefaultPath) \o call'.message \o <<NL>> ]_vars

\* C8 as stated: init with an out-of-range level leaves both fields as they were.
C8_OutOfRangeLevelKeepsBoth ==
    [][ (Called /\ call'.op = "init" /\ call'.level \notin 0..5) =>
          /\ get_log_path(env') = get_log_path(env)
          /\ get_log_level(env') = get_log_level(env) ]_vars

\* C8, amended: init with an out-of-range level keeps the stored level, stores the
\* expansion of its pattern as the path, and prints and writes nothing.
C8_OutOfRangeLevelKeepsLevelOnly ==
    [][ (Called /\ call'.op = "init" /\ call'.level \notin 0..5) =>
          /\ EnvVar(env', LOG_LEVEL_VAR) = EnvVar(env, LOG_LEVEL_VAR)
          /\ get_log_path(env') = ExpectedPath(call'.pattern, call'.now)
          /\ stdout' = stdout /\ files' = files ]_vars

\* The process started with SE_LOG_PATH = d/p; init("a", 6) made the path a.
C8_Witness ==
    /\ ncalls = 1 /\ call.op = "init" /\ call.level = 6
    /\ get_log_path(env0) = <<"d", "/", "p">> /\ get_log_path(env) = <<"a">>
    /\ EnvVar(env, LOG_LEVEL_VAR) = EnvVar(env0, LOG_LEVEL_VAR)

\* C9: under concurrent init calls the stored path is the default or the path of some
\* init call, and the stored level is the in-range level of some init call (the
\* threshold INFO when none is stored): each key is written whole.
IssuedLevels == {c.level : c \in {d \in issued : d.level \in 0..5}}

FromOneCall(path, level) == \E c \in issued : c.path = path /\ c.level = level

C10_LastInitWinsPerField ==
    /\ lastValid # 0 - 1 => get_log_level(env) = lastValid
    /\ (lastValid = 0 - 1 /\ LOG_LEVEL_VAR \notin DOMAIN env0) => get_log_level(env) = 3
    /\ (lastValid # 0 - 1 \/ LOG_LEVEL_VAR \notin DOMAIN env0) => get_log_level(env) \in 0..5
    /\ lastInit.op = "init" =>
          get_log_path(env) = ExpectedPath(lastInit.pattern, lastInit.now)

\* init("d/%S", 4) then init("a", 6): the threshold is 4 and the path is a.
C10_Witness ==
    /\ DOMAIN env0 = {} /\ ncalls = 2 /\ call.op = "init"
    /\ call.level = 6 /\ call.pattern = <<"a">>
    /\ get_log_level(env) = 4 /\ get_log_path(env) = <<"a">>

====
